---- MODULE Spec2Model ----
(***************************************************************************)
(* Sink lifecycle of target-snowflake: the get_sink override installed on  *)
(* SQLTarget (src/target_snowflake/target.py, overriden_get_sink), with    *)
(* the sink pool it works on (_sinks_active, _sinks_to_clear), the record  *)
(* append of the ingestion path and the drain cycle.                       *)
(***************************************************************************)
EXTENDS Integers, Sequences, FiniteSets, TLC

\* ------------------------------------------------------------- bounds
MaxSinks == 3
MaxRecords == 2

\* ------------------------------------------------------------- values
\* Python's None: an absent schema, absent key_properties, an absent sink.
None == "None"
NoSink == 0

Streams == {"orders", "users"}
Schemas == {"A", "B"}
\* key_properties=None (the default of the parameter), kept apart from every
\* list of key columns.
NoKeys == <<None>>
KeyProps == {<<"id">>, <<"id", "region">>}

\* The names bound at module level when overriden_get_sink runs: the imports
\* of lines 3-13 and the module's own definitions.  "os" is not among them.
ModuleGlobals ==
    {"annotations", "logging", "click", "th", "SQLTarget",
     "DEFAULT_TIMESTAMP_TYPE", "SnowflakeTimestampType", "initializer",
     "SnowflakeSink", "overriden_get_sink", "TargetSnowflake"}

\* The values the process environment can give GREEDY_SINK.
EnvValues == {"unset", "true", "false"}

VARIABLES
    sinks,            \* every sink object created so far, by identity 1..Len
    sinks_active,     \* self._sinks_active: stream name -> sink (or NoSink)
    sinks_to_clear,   \* self._sinks_to_clear: the retired sinks, in order
    GREEDY_SINK,      \* the environment variable of that name
    announced,        \* per stream, the descriptor of the last schema message
    store,            \* the records persisted so far, in order
    nrec,             \* the number of records taken in so far
    last,             \* the get_sink call the ingestion loop is working on
    draining          \* the drain cycle running on a second execution context

vars == <<sinks, sinks_active, sinks_to_clear, GREEDY_SINK, announced,
          store, nrec, last, draining>>

Range(s) == {s[i] : i \in 1..Len(s)}

\* The shape of the state: sinks is the list of sink objects, _sinks_active
\* maps each stream to a sink of that list or to none, _sinks_to_clear is a
\* list of sinks, and the call frame names a sink of the list or none.
TypeOK ==
    /\ Len(sinks) <= MaxSinks
    /\ \A i \in 1..Len(sinks) :
          /\ sinks[i].stream_name \in Streams
          /\ sinks[i].schema \in Schemas \cup {None}
          /\ sinks[i].key_properties \in KeyProps \cup {NoKeys}
          /\ Range(sinks[i].records) \subseteq 1..nrec
    /\ \A s \in Streams : sinks_active[s] \in 0..Len(sinks)
    /\ Range(sinks_to_clear) \subseteq 1..Len(sinks)
    /\ GREEDY_SINK \in EnvValues
    /\ Range(store) \subseteq 1..nrec
    /\ nrec \in 0..MaxRecords
    /\ last.ret \in 0..Len(sinks)
    /\ last.existing \in 0..Len(sinks)
    /\ last.exc \in {"none", "RecordsWithoutSchemaException", "KeyError",
                     "NameError", "AttributeError"}
    /\ last.log.changed \in Streams \cup {None}
    /\ last.failing \subseteq 1..Len(sinks)

\* The keys of the _sinks_active dict.
ActiveIds == {sinks_active[s] : s \in Streams} \ {NoSink}

\* The sinks that hold unflushed records.
Pending == {i \in 1..Len(sinks) : sinks[i].records # <<>>}

\* ------------------------------------------------------------- sinks
\* A sink object: what SnowflakeSink(stream_name, schema, key_properties)
\* holds, and its buffer of pending records.
NewSink(stream_name, schema, key_properties) ==
    [stream_name |-> stream_name, schema |-> schema,
     key_properties |-> key_properties, records |-> <<>>]

\* What one get_sink call logs: the messages of lines 70 and 72, and the
\* stream named by the message of lines 74-79 (None when it is not logged).
NoLog == [schema_diff |-> FALSE, prop_diff |-> FALSE, changed |-> None]

\* The call frame of the ingestion loop when it is between two messages; after
\* a drain it tells how the drain was called and which flushes failed.
NoCall ==
    [stream_name |-> None, with_schema |-> FALSE, existing |-> NoSink,
     ret |-> NoSink, exc |-> "none", log |-> NoLog,
     drained |-> FALSE, active_too |-> FALSE, failing |-> {}]

\* ------------------------------------------------------------- get_sink
\* An outcome of a call: the pool after it, the sink returned (NoSink when it
\* raised) and the exception raised ("none" when it returned).
Outcome(snk, act, clr, ret, exc, existing) ==
    [sinks |-> snk, active |-> act, to_clear |-> clr, ret |-> ret, exc |-> exc,
     existing |-> existing, log |-> NoLog]

\* add_sqlsink building the sink under one fixed name instead of stream_name.
add_sqlsink_fixed_name(snk, act, stream_name, schema, key_properties) ==
    [sinks |-> Append(snk, NewSink("orders", schema, key_properties)),
     active |-> [act EXCEPT ![stream_name] = Len(snk) + 1],
     ret |-> Len(snk) + 1]

\* self.add_sqlsink(stream_name, schema, key_properties) on the pool (snk, act):
\* builds the sink, registers it under stream_name and returns it.
add_sqlsink(snk, act, stream_name, schema, key_properties) ==
    [sinks |-> Append(snk, NewSink(stream_name, schema, key_properties)),
     active |-> [act EXCEPT ![stream_name] = Len(snk) + 1],
     ret |-> Len(snk) + 1]

\* The call of _assert_sink_exists left out.
assert_sink_exists_skipped(act, stream_name) == "none"

\* self._assert_sink_exists(stream_name): raises RecordsWithoutSchemaException
\* when the stream has no active sink.
assert_sink_exists(act, stream_name) ==
    IF act[stream_name] = NoSink THEN "RecordsWithoutSchemaException" ELSE "none"

\* The test of line 54 never taken.
schema_is_None_never(schema) == FALSE

\* schema is None
schema_is_None(schema) == schema = None

\* The test of line 59 always taken.
not_existing_sink_always(existing_sink) == TRUE

\* not existing_sink
not_existing_sink(existing_sink) == existing_sink = NoSink

\* add_sqlsink called with one fixed stream name.
add_sqlsink_args_fixed_stream(stream_name, schema, key_properties) ==
    [stream_name |-> "orders", schema |-> schema, key_properties |-> key_properties]

\* add_sqlsink called without the key properties.
add_sqlsink_args_no_keys(stream_name, schema, key_properties) ==
    [stream_name |-> stream_name, schema |-> schema, key_properties |-> NoKeys]

\* The arguments of the add_sqlsink calls.
add_sqlsink_args(stream_name, schema, key_properties) ==
    [stream_name |-> stream_name, schema |-> schema,
     key_properties |-> key_properties]

\* greedy_sink = os.enviorn.get('GREEDY_SINK', 'false') == 'true'
\* The name os is looked up in the module's globals first: it is not bound
\* there (nor is it a builtin), so the lookup raises NameError before the
\* environment is read.  Were it bound, the attribute enviorn of the os module
\* does not exist (the mapping is os.environ) and the access raises
\* AttributeError.
greedy_sink_eval(env) ==
    IF "os" \notin ModuleGlobals
    THEN [exc |-> "NameError", val |-> FALSE]
    ELSE [exc |-> "AttributeError", val |-> FALSE]

\* The logger.info calls of lines 69-79, made when the descriptor has changed.
change_log(existing, stream_name, schema, key_properties) ==
    [schema_diff |-> existing.schema # schema,
     prop_diff |-> existing.key_properties # key_properties,
     changed |-> stream_name]

\* overriden_get_sink(self, stream_name, schema=..., key_properties=...)
overriden_get_sink(stream_name, schema, key_properties) ==
    LET same == Outcome(sinks, sinks_active, sinks_to_clear, NoSink, "none",
                        sinks_active[stream_name])
    IN
    IF schema_is_None(schema)
    THEN LET e == assert_sink_exists(sinks_active, stream_name) IN
         IF e # "none"
         THEN [same EXCEPT !.exc = e]
         ELSE IF sinks_active[stream_name] = NoSink
              THEN [same EXCEPT !.exc = "KeyError"]
              ELSE [same EXCEPT !.ret = sinks_active[stream_name]]
    ELSE
    LET existing_sink == sinks_active[stream_name]
        a == add_sqlsink_args(stream_name, schema, key_properties)
    IN
    IF not_existing_sink(existing_sink)
    THEN LET r == add_sqlsink(sinks, sinks_active, a.stream_name, a.schema,
                              a.key_properties)
         IN Outcome(r.sinks, r.active, sinks_to_clear, r.ret, "none", existing_sink)
    ELSE
    LET greedy_sink == greedy_sink_eval(GREEDY_SINK) IN
    IF greedy_sink.exc # "none"
    THEN [same EXCEPT !.exc = greedy_sink.exc]
    ELSE
    IF /\ ~greedy_sink.val
       /\ \/ sinks[existing_sink].schema # schema
          \/ sinks[existing_sink].key_properties # key_properties
    THEN LET popped == [sinks_active EXCEPT ![stream_name] = NoSink]
             r == add_sqlsink(sinks, popped, a.stream_name, a.schema,
                              a.key_properties)
         IN [Outcome(r.sinks, r.active, Append(sinks_to_clear, existing_sink),
                     r.ret, "none", existing_sink)
               EXCEPT !.log = change_log(sinks[existing_sink], stream_name,
                                         schema, key_properties)]
    ELSE [same EXCEPT !.ret = existing_sink]

\* One call of get_sink, as the ingestion loop makes it for a schema message
\* (schema and key_properties given) or for a record message (schema None).
get_sink(stream_name, schema, key_properties) ==
    LET o == overriden_get_sink(stream_name, schema, key_properties) IN
    /\ Len(o.sinks) <= MaxSinks
    /\ sinks' = o.sinks
    /\ sinks_active' = o.active
    /\ sinks_to_clear' = o.to_clear
    /\ announced' = IF schema = None THEN announced
                    ELSE [announced EXCEPT ![stream_name] =
                             [schema |-> schema, key_properties |-> key_properties]]
    /\ last' = [NoCall EXCEPT !.stream_name = stream_name,
                              !.with_schema = schema # None,
                              !.existing = o.existing,
                              !.ret = o.ret,
                              !.exc = o.exc,
                              !.log = o.log]
    /\ UNCHANGED <<GREEDY_SINK, store, nrec, draining>>

\* ------------------------------------------------------------- append
\* sink.append(record) on the sink the get_sink call for the record returned;
\* a record is its sequence number.  The loop then moves to the next message.
append ==
    /\ last.ret # NoSink
    /\ nrec < MaxRecords
    /\ nrec' = nrec + 1
    /\ sinks' = [sinks EXCEPT ![last.ret].records = Append(@, nrec + 1)]
    /\ last' = NoCall
    /\ UNCHANGED <<sinks_active, sinks_to_clear, GREEDY_SINK, announced, store,
                   draining>>

\* ------------------------------------------------------------- drain
\* The drain giving up at the first flush that fails.
RECURSIVE flush_each_abort(_, _, _, _)
flush_each_abort(ids, failing, snk, sto) ==
    IF ids = <<>> THEN [sinks |-> snk, store |-> sto]
    ELSE LET i == Head(ids) IN
         IF i \in failing /\ snk[i].records # <<>>
         THEN [sinks |-> snk, store |-> sto]
         ELSE flush_each_abort(Tail(ids), failing,
                               [snk EXCEPT ![i].records = <<>>],
                               sto \o snk[i].records)

\* sink.flush(): persists the buffer as a unit and clears it; a failed flush
\* leaves the buffer as it was.  An empty buffer flushes trivially.
RECURSIVE flush_each(_, _, _, _)
flush_each(ids, failing, snk, sto) ==
    IF ids = <<>> THEN [sinks |-> snk, store |-> sto]
    ELSE LET i == Head(ids) IN
         IF i \in failing /\ snk[i].records # <<>>
         THEN flush_each(Tail(ids), failing, snk, sto)
         ELSE flush_each(Tail(ids), failing,
                         [snk EXCEPT ![i].records = <<>>],
                         sto \o snk[i].records)

\* The sinks of a sequence whose flush did not succeed, in order.
RECURSIVE kept(_, _, _)
kept(ids, failing, snk) ==
    IF ids = <<>> THEN <<>>
    ELSE IF Head(ids) \in failing /\ snk[Head(ids)].records # <<>>
         THEN <<Head(ids)>> \o kept(Tail(ids), failing, snk)
         ELSE kept(Tail(ids), failing, snk)

\* The active sinks as a sequence, in the order of their creation.
RECURSIVE active_seq(_)
active_seq(n) ==
    IF n = 0 THEN <<>>
    ELSE IF n \in ActiveIds THEN Append(active_seq(n - 1), n)
         ELSE active_seq(n - 1)

\* The sinks drainAll(flushActiveToo) calls flush on.
Attempted(flushActiveToo) ==
    Range(sinks_to_clear) \cup (IF flushActiveToo THEN ActiveIds ELSE {})

\* drainAll(flushActiveToo), with `failing` the sinks whose flush fails: every
\* retiring sink is flushed in retirement order and removed when its flush
\* succeeded; with flushActiveToo every active sink is flushed as well and
\* stays active.
drain_all(flushActiveToo, failing) ==
    LET r == flush_each(sinks_to_clear, failing, sinks, store)
        a == IF flushActiveToo
             THEN flush_each(active_seq(Len(sinks)), failing, r.sinks, r.store)
             ELSE r
    IN
    /\ sinks' = a.sinks
    /\ store' = a.store
    /\ sinks_to_clear' = kept(sinks_to_clear, failing, sinks)
    /\ last' = [NoCall EXCEPT !.drained = TRUE,
                              !.active_too = flushActiveToo,
                              !.failing = failing]
    /\ UNCHANGED <<sinks_active, GREEDY_SINK, announced, nrec, draining>>

\* ------------------------------------------------------------- concurrent drain
\* The drain cycle as section 5 of the design lays it out for a second
\* execution context: under the pool's lock it copies out the sinks to drain,
\* outside the lock it flushes them one by one, and under the lock again it
\* removes the retiring sinks it flushed.  Each action is one critical section
\* or one flush; get_sink and append take their steps in between.
Idle == [pc |-> "idle", todo_clear |-> <<>>, todo_active |-> <<>>, flushed |-> {}]

drain_begin(flushActiveToo) ==
    /\ draining.pc = "idle"
    /\ draining' = [pc |-> "flushing",
                    todo_clear |-> sinks_to_clear,
                    todo_active |-> IF flushActiveToo
                                    THEN active_seq(Len(sinks)) ELSE <<>>,
                    flushed |-> {}]
    /\ UNCHANGED <<sinks, sinks_active, sinks_to_clear, GREEDY_SINK, announced,
                   store, nrec, last>>

drain_flush(ok) ==
    /\ draining.pc = "flushing"
    /\ draining.todo_clear # <<>> \/ draining.todo_active # <<>>
    /\ LET retiring == draining.todo_clear # <<>>
           i == IF retiring THEN Head(draining.todo_clear)
                ELSE Head(draining.todo_active)
           done == ok \/ sinks[i].records = <<>>
       IN /\ sinks' = IF done THEN [sinks EXCEPT ![i].records = <<>>] ELSE sinks
          /\ store' = IF done THEN store \o sinks[i].records ELSE store
          /\ draining' =
                IF retiring
                THEN [draining EXCEPT
                        !.todo_clear = Tail(@),
                        !.flushed = IF done THEN @ \cup {i} ELSE @]
                ELSE [draining EXCEPT !.todo_active = Tail(@)]
    /\ UNCHANGED <<sinks_active, sinks_to_clear, GREEDY_SINK, announced, nrec, last>>

drain_end ==
    /\ draining.pc = "flushing"
    /\ draining.todo_clear = <<>>
    /\ draining.todo_active = <<>>
    /\ sinks_to_clear' = SelectSeq(sinks_to_clear,
                                   LAMBDA i : i \notin draining.flushed)
    /\ draining' = Idle
    /\ UNCHANGED <<sinks, sinks_active, GREEDY_SINK, announced, store, nrec, last>>

\* ------------------------------------------------------------- environment
\* The operator sets or unsets GREEDY_SINK in the process environment.
setenv(v) ==
    /\ v # GREEDY_SINK
    /\ GREEDY_SINK' = v
    /\ UNCHANGED <<sinks, sinks_active, sinks_to_clear, announced, store, nrec,
                   last, draining>>

\* ------------------------------------------------------------- specification
Init ==
    /\ sinks = <<>>
    /\ sinks_active = [s \in Streams |-> NoSink]
    /\ sinks_to_clear = <<>>
    /\ GREEDY_SINK \in EnvValues
    /\ announced = [s \in Streams |-> [schema |-> None, key_properties |-> NoKeys]]
    /\ store = <<>>
    /\ nrec = 0
    /\ last = NoCall
    /\ draining = Idle

Next ==
    \/ \E s \in Streams :
          \/ get_sink(s, None, NoKeys)
          \/ \E sc \in Schemas, k \in KeyProps : get_sink(s, sc, k)
    \/ append
    \/ \E f \in BOOLEAN :
          \E failing \in SUBSET (Pending \cap Attempted(f)) : drain_all(f, failing)
    \/ \E v \in EnvValues : setenv(v)

Spec == Init /\ [][Next]_vars

\* The ingestion path (get_sink, append) with the drain cycle running beside
\* it on its own execution context.
NextConc ==
    \/ \E s \in Streams :
          \/ get_sink(s, None, NoKeys)
          \/ \E sc \in Schemas, k \in KeyProps : get_sink(s, sc, k)
    \/ append
    \/ \E f \in BOOLEAN : drain_begin(f)
    \/ \E ok \in BOOLEAN : drain_flush(ok)
    \/ drain_end

SpecConc == Init /\ [][NextConc]_vars

\* ------------------------------------------------------------- the call in `last`
\* The arguments of the call recorded in last.
CallStream == last.stream_name
CallSchema == IF last.with_schema THEN announced[last.stream_name].schema ELSE None
CallKeys == IF last.with_schema THEN announced[last.stream_name].key_properties ELSE NoKeys

\* A step that is one get_sink call; the call is described by last'.
GetSinkStep ==
    /\ last'.stream_name # None
    /\ GREEDY_SINK' = GREEDY_SINK
    /\ nrec' = nrec
    /\ draining' = draining

\* A step that is one append; the sink appended to is last.ret.
AppendStep == nrec' = nrec + 1

\* The configuration flag greedySink: true only when GREEDY_SINK is 'true',
\* false when it is unset or anything else.
greedySink == GREEDY_SINK = "true"

\* The stream's active sink had a descriptor other than the incoming one.
Changed(s) ==
    \/ sinks[sinks_active[s]].schema # CallSchema'
    \/ sinks[sinks_active[s]].key_properties # CallKeys'

\* ------------------------------------------------------------- claims

\* C1: in every state reached by get_sink, append and drain_all calls, the
\* active mapping holds at most one sink per stream name: no two entries of
\* _sinks_active are sinks of the same stream.
C1_AtMostOneActivePerStream ==
    \A n \in Streams :
        Cardinality({i \in ActiveIds : sinks[i].stream_name = n}) <= 1

\* C1 witness: both streams have an active sink, records are pending and a
\* drain has persisted records.
C1_Witness ==
    /\ \A s \in Streams : sinks_active[s] # NoSink
    /\ Pending # {}
    /\ store # <<>>

\* C2: a get_sink call with a schema, for a stream with an active sink, with
\* greedySink false and a descriptor that differs in shape or keys, leaves the
\* previous active sink last in _sinks_to_clear with its records unchanged,
\* and returns a newly created, empty sink with the incoming schema and keys
\* that is the stream's active sink.
C2_RetireOnChange ==
    [][ (/\ GetSinkStep
         /\ last'.with_schema
         /\ sinks_active[CallStream'] # NoSink
         /\ ~greedySink
         /\ Changed(CallStream'))
        => LET s == CallStream'
               old == sinks_active[s]
           IN /\ last'.exc = "none"
              /\ sinks_to_clear' = Append(sinks_to_clear, old)
              /\ sinks'[old] = sinks[old]
              /\ last'.ret = Len(sinks) + 1
              /\ sinks_active'[s] = last'.ret
              /\ sinks' = Append(sinks, NewSink(s, CallSchema', CallKeys')) ]_vars

\* C3: with greedySink true and an active sink for the stream, a get_sink call
\* with any schema and keys returns that same sink and leaves _sinks_active
\* and _sinks_to_clear unchanged.
C3_GreedyReuses ==
    [][ (/\ GetSinkStep
         /\ last'.with_schema
         /\ sinks_active[CallStream'] # NoSink
         /\ greedySink)
        => /\ last'.exc = "none"
           /\ last'.ret = sinks_active[CallStream']
           /\ UNCHANGED <<sinks_active, sinks_to_clear>> ]_vars

\* C4: get_sink raises nothing but RecordsWithoutSchemaException, and that
\* only for a call without schema for a stream without active sink; every
\* other call returns a sink.
C4_OnlyNoSchemaAvailable ==
    /\ last.exc # "none" =>
          /\ last.exc = "RecordsWithoutSchemaException"
          /\ ~last.with_schema
          /\ last.existing = NoSink
    /\ (last.stream_name # None /\ (last.with_schema \/ last.existing # NoSink)) =>
          /\ last.exc = "none"
          /\ last.ret # NoSink

\* C5: a get_sink call without schema for a stream without active sink raises
\* RecordsWithoutSchemaException and leaves the sinks, _sinks_active and
\* _sinks_to_clear as they were.
C5_NoSchemaNoSinkRaises ==
    [][ (/\ GetSinkStep
         /\ ~last'.with_schema
         /\ sinks_active[CallStream'] = NoSink)
        => /\ last'.exc = "RecordsWithoutSchemaException"
           /\ last'.ret = NoSink
           /\ UNCHANGED <<sinks, sinks_active, sinks_to_clear>> ]_vars

\* C5 witness: such a call has raised on a pool that holds a sink with
\* pending records.
C5_Witness ==
    /\ last.exc = "RecordsWithoutSchemaException"
    /\ sinks_active[last.stream_name] = NoSink
    /\ Pending # {}

\* C6: a get_sink call with a schema for a stream without active sink creates
\* one sink with exactly the incoming schema and keys, registers it as the
\* stream's active sink, returns it and adds nothing to _sinks_to_clear.
C6_CreatesFirstSink ==
    [][ (/\ GetSinkStep
         /\ last'.with_schema
         /\ sinks_active[CallStream'] = NoSink)
        => LET s == CallStream' IN
           /\ last'.exc = "none"
           /\ last'.ret = Len(sinks) + 1
           /\ sinks' = Append(sinks, NewSink(s, CallSchema', CallKeys'))
           /\ sinks_active' = [sinks_active EXCEPT ![s] = last'.ret]
           /\ sinks_to_clear' = sinks_to_clear ]_vars

\* C6 witness: the call has just created the second stream's first sink, with
\* the key columns id, region.
C6_Witness ==
    /\ last.with_schema
    /\ last.existing = NoSink
    /\ last.ret = 2
    /\ sinks_active[last.stream_name] = 2
    /\ sinks[2].key_properties = <<"id", "region">>
    /\ sinks[2].schema = CallSchema

\* C7: a get_sink call whose schema and keys equal those of the stream's
\* active sink returns that sink and changes neither _sinks_active nor
\* _sinks_to_clear nor any buffer.
C7_UnchangedDescriptorIdempotent ==
    [][ (/\ GetSinkStep
         /\ last'.with_schema
         /\ sinks_active[CallStream'] # NoSink
         /\ ~Changed(CallStream'))
        => /\ last'.exc = "none"
           /\ last'.ret = sinks_active[CallStream']
           /\ UNCHANGED <<sinks, sinks_active, sinks_to_clear>> ]_vars

\* C8: no cross-contamination across a schema change.  With greedySink false,
\* a call with a different descriptor for a stream whose active sink holds k
\* records leaves that sink in _sinks_to_clear with exactly those k records
\* under the old descriptor and makes an empty sink under the new descriptor
\* the stream's active sink; and every append puts its record into the
\* stream's active sink, whose descriptor is the one last announced, and into
\* no other sink.
C8_NoCrossContamination ==
    [][ /\ (/\ GetSinkStep
            /\ last'.with_schema
            /\ sinks_active[CallStream'] # NoSink
            /\ ~greedySink
            /\ Changed(CallStream'))
           => LET s == CallStream'
                  old == sinks_active[s]
              IN /\ old \in Range(sinks_to_clear')
                 /\ sinks'[old] = sinks[old]
                 /\ sinks_active'[s] # old
                 /\ sinks_active'[s] # NoSink
                 /\ sinks'[sinks_active'[s]].records = <<>>
                 /\ sinks'[sinks_active'[s]].schema = CallSchema'
                 /\ sinks'[sinks_active'[s]].key_properties = CallKeys'
        /\ (AppendStep /\ ~greedySink)
           => /\ last.ret = sinks_active[CallStream]
              /\ last.ret \notin Range(sinks_to_clear)
              /\ \A i \in 1..Len(sinks) :
                    i # last.ret => sinks'[i].records = sinks[i].records ]_vars

\* C9: a get_sink call without schema for a stream with an active sink
\* returns that active sink, the most recently created sink of the stream and
\* none of _sinks_to_clear, and changes neither _sinks_active nor
\* _sinks_to_clear.
C9_NoSchemaReturnsActive ==
    [][ (/\ GetSinkStep
         /\ ~last'.with_schema
         /\ sinks_active[CallStream'] # NoSink)
        => /\ last'.exc = "none"
           /\ last'.ret = sinks_active[CallStream']
           /\ last'.ret \notin Range(sinks_to_clear)
           /\ \A j \in 1..Len(sinks) :
                 sinks[j].stream_name = CallStream' => j <= last'.ret
           /\ UNCHANGED <<sinks, sinks_active, sinks_to_clear>> ]_vars

\* C9 witness: a record message has been routed to the active sink of its
\* stream, which already holds a record.
C9_Witness ==
    /\ last.stream_name # None
    /\ ~last.with_schema
    /\ last.ret # NoSink
    /\ last.ret = sinks_active[last.stream_name]
    /\ sinks[last.ret].records # <<>>

\* C10: every sink that holds unflushed records is in exactly one of
\* _sinks_active and _sinks_to_clear.
C10_PendingInExactlyOne ==
    \A i \in Pending :
        (i \in ActiveIds) # (i \in Range(sinks_to_clear))

\* C10 witness: an active sink holds an unflushed record after a drain has
\* persisted another record.
C10_Witness ==
    /\ \E i \in Pending : i \in ActiveIds /\ i \notin Range(sinks_to_clear)
    /\ Len(store) = 1

\* ------------------------------------------------------------- more steps
\* A step that is one drain_all call; the call is described by last'.
DrainStep ==
    /\ last'.drained
    /\ GREEDY_SINK' = GREEDY_SINK
    /\ nrec' = nrec

\* A get_sink call that is due to retire the stream's active sink: a schema
\* is given, the stream has an active sink, greedySink is false and the shape
\* or the keys differ.
RetirementDue ==
    /\ GetSinkStep
    /\ last'.with_schema
    /\ sinks_active[CallStream'] # NoSink
    /\ ~greedySink
    /\ Changed(CallStream')

\* The buffers of the sinks ids, one after the other.
RECURSIVE Batches(_, _)
Batches(ids, snk) ==
    IF ids = <<>> THEN <<>> ELSE snk[Head(ids)].records \o Batches(Tail(ids), snk)

\* The number of sinks of stream s in the list clr of retired sinks.
RetiredOf(s, clr, snk) ==
    Cardinality({k \in 1..Len(clr) : snk[clr[k]].stream_name = s})

C12_DrainPartialFailure ==
    [][ DrainStep =>
        LET f == last'.failing
            a == Attempted(last'.active_too)
        IN /\ \A i \in a \ f :
                 /\ sinks'[i].records = <<>>
                 /\ Range(sinks[i].records) \subseteq Range(store')
           /\ \A i \in f :
                 /\ sinks'[i].records = sinks[i].records
                 /\ Range(sinks[i].records) \cap Range(store') = {}
                 /\ i \in Range(sinks_to_clear) => i \in Range(sinks_to_clear')
           /\ \A i \in Range(sinks_to_clear) \ Range(sinks_to_clear') :
                 i \notin f /\ sinks'[i].records = <<>>
           /\ \A i \in (1..Len(sinks)) \ a : sinks'[i] = sinks[i]
           /\ sinks_active' = sinks_active ]_vars

\* C12 witness: a drain_all with flushActiveToo in which the flush of the sink
\* holding record 1 failed, while the other stream's sink, holding record 2,
\* was flushed to the store.
C12_Witness ==
    /\ last.drained
    /\ last.active_too
    /\ \E i \in last.failing : sinks[i].records = <<1>>
    /\ store = <<2>>

\* A step that ends a concurrent drain cycle.
DrainEndStep == draining.pc = "flushing" /\ draining'.pc = "idle"

C14_NoAppendAfterRetirement ==
    [][ /\ (GetSinkStep /\ last'.exc = "none") =>
              /\ last'.ret # NoSink
              /\ last'.ret = sinks_active'[CallStream']
              /\ last'.ret \notin Range(sinks_to_clear')
        /\ AppendStep =>
              /\ last.ret = sinks_active[CallStream]
              /\ last.ret \notin Range(sinks_to_clear)
        /\ \A i \in Range(sinks_to_clear) :
              Len(sinks'[i].records) <= Len(sinks[i].records) ]_vars

\* C14 witness: two records have been appended, one after the other, to the
\* sink that is still its stream's active sink.
C14_Witness ==
    /\ last.stream_name = None
    /\ ~last.drained
    /\ \E s \in Streams :
          /\ sinks_active[s] # NoSink
          /\ sinks[sinks_active[s]].records = <<1, 2>>

\* C15: with greedySink false every descriptor change of a stream adds one
\* sink of that stream at the tail of _sinks_to_clear, the sinks retired
\* before keeping their places, and makes a sink created by this call, not
\* one retired earlier, the stream's active sink.
C15_RetiredAccumulate ==
    [][ RetirementDue =>
        LET s == CallStream'
            old == sinks_active[s]
        IN /\ Len(sinks_to_clear') = Len(sinks_to_clear) + 1
           /\ SubSeq(sinks_to_clear', 1, Len(sinks_to_clear)) = sinks_to_clear
           /\ sinks_to_clear'[Len(sinks_to_clear')] = old
           /\ RetiredOf(s, sinks_to_clear', sinks') =
                 RetiredOf(s, sinks_to_clear, sinks) + 1
           /\ sinks_active'[s] = Len(sinks) + 1
           /\ sinks_active'[s] \notin Range(sinks_to_clear') ]_vars

\* C16: a get_sink call for stream s leaves the active sinks of the other
\* streams, the sinks already in _sinks_to_clear and their order, every
\* existing sink with its buffer, and the store as they were; what it adds to
\* _sinks_to_clear is a sink of s.
C16_GetSinkFrame ==
    [][ GetSinkStep =>
        LET s == CallStream' IN
        /\ \A u \in Streams \ {s} : sinks_active'[u] = sinks_active[u]
        /\ Len(sinks_to_clear') >= Len(sinks_to_clear)
        /\ SubSeq(sinks_to_clear', 1, Len(sinks_to_clear)) = sinks_to_clear
        /\ \A k \in (Len(sinks_to_clear) + 1)..Len(sinks_to_clear') :
              sinks[sinks_to_clear'[k]].stream_name = s
        /\ Len(sinks') >= Len(sinks)
        /\ \A i \in 1..Len(sinks) : sinks'[i] = sinks[i]
        /\ store' = store ]_vars

\* C16 witness: a call has created the first sink of one stream while the
\* active sink of the other stream holds a record.
C16_Witness ==
    /\ last.with_schema
    /\ last.existing = NoSink
    /\ last.ret = 2
    /\ sinks[1].stream_name # last.stream_name
    /\ sinks_active[sinks[1].stream_name] = 1
    /\ sinks[1].records # <<>>

\* C17: each get_sink decision follows the value GREEDY_SINK has at that
\* call, unset counting as false: for a stream with an active sink and a
\* differing descriptor the call returns the existing sink and retires
\* nothing when the value is 'true', and retires the active sink otherwise,
\* whatever the value was at earlier calls.
C17_GreedyReadPerCall ==
    [][ (/\ GetSinkStep
         /\ last'.with_schema
         /\ sinks_active[CallStream'] # NoSink
         /\ Changed(CallStream'))
        => LET s == CallStream'
               old == sinks_active[s]
           IN /\ last'.exc = "none"
              /\ IF GREEDY_SINK = "true"
                 THEN /\ last'.ret = old
                      /\ UNCHANGED <<sinks_active, sinks_to_clear>>
                 ELSE /\ sinks_to_clear' = Append(sinks_to_clear, old)
                      /\ sinks_active'[s] # old ]_vars

C19_ReturnedSinkCarriesDescriptor ==
    [][ /\ (/\ GetSinkStep
            /\ last'.with_schema
            /\ ~greedySink
            /\ last'.exc = "none")
           => /\ last'.ret # NoSink
              /\ sinks_active'[CallStream'] = last'.ret
              /\ sinks'[last'.ret].schema = CallSchema'
              /\ sinks'[last'.ret].key_properties = CallKeys'
        /\ (/\ GetSinkStep
            /\ last'.with_schema
            /\ ~greedySink
            /\ sinks_active[CallStream'] # NoSink
            /\ sinks[sinks_active[CallStream']].schema = CallSchema'
            /\ sinks[sinks_active[CallStream']].key_properties # CallKeys')
           => /\ last'.exc = "none"
              /\ sinks_active'[CallStream'] # sinks_active[CallStream']
              /\ sinks'[sinks_active'[CallStream']].key_properties = CallKeys' ]_vars

====
